---- MODULE Spec2Model ----
(***************************************************************************)
(* A model of the bets pallet (src/src/lib.rs): matches published by a     *)
(* bookmaker, bets reserved against them, a pseudo-random result and the   *)
(* settlement of each bet through the reservable currency.                 *)
(***************************************************************************)
EXTENDS Integers, Sequences, FiniteSets, TLC

\* ------------------------------------------------------------ bounds ----
\* The largest value of the Balance type (BalanceOf<T>) in the model.
BalanceMax == 120
\* create_match succeeds while fewer than MaxMatches matches are stored.
MaxMatches == 1
\* place_bet succeeds while fewer than MaxBets bets are stored.
MaxBets == 2
\* The largest amount a caller offers to place_bet.
MaxAmount == 2
\* The largest integer part of an odd handed to winnable_amount on its own.
MaxOddInt == 3

\* --------------------------------------------------------- constants ----
max_trials == 10
max_score == 9
OverUnderThreshold == 3
OddFracBound == 99

\* A u32 is the pair <<high half, low half>> of its 16-bit halves.
Half == 2 ^ 16
U32Max == <<Half - 1, Half - 1>>
u32_lt(a, b) == a[1] < b[1] \/ (a[1] = b[1] /\ a[2] < b[2])
u32_rem(v, m) == ((v[1] % m) * (Half % m) + v[2]) % m
u32_sub(v, k) ==
    IF v[2] >= k THEN <<v[1], v[2] - k>> ELSE <<v[1] - 1, v[2] + Half - k>>

Accounts == {"a1", "a2", "a3"}
Predictions == {"Homewin", "Awaywin", "Draw", "Under", "Over"}
Amounts == 1..MaxAmount

\* The five odds (homewin, awaywin, draw, under, over) a caller supplies.
OddsInputs ==
    { <<<<1, 0>>, <<1, 60>>, <<2, 50>>, <<1, 98>>, <<3, 0>>>>,
      <<<<1, 99>>, <<1, 0>>, <<1, 0>>, <<1, 0>>, <<1, 0>>>>,
      <<<<1, 0>>, <<1, 0>>, <<1, 100>>, <<1, 0>>, <<1, 0>>>>,
      <<<<1, 0>>, <<0, 0>>, <<1, 0>>, <<1, 0>>, <<1, 0>>>>,
      <<<<1, 0>>, <<1, 0>>, <<1, 0>>, <<1, 0>>, <<0, 99>>>> }

\* The odds create_match lets through, and the values of the Balance type.
ValidOdds == { <<i, f>> : i \in 1..MaxOddInt, f \in 0..(OddFracBound - 1) }
Balances == 0..BalanceMax

\* The free balances the accounts start with (total issuance fits Balance).
InitialFree ==
    { [a \in Accounts |-> IF a = "a1" THEN 8 ELSE IF a = "a2" THEN 3 ELSE 1] }

VARIABLES
    Matches,     \* StorageMap MatchIndex -> SingleMatch
    Bets,        \* StorageMap BetIndex -> Bet
    MatchCount,  \* StorageValue MatchCount
    BetCount,    \* StorageValue BetCount
    free,        \* the currency's free balance of every account
    reserved,    \* the currency's reserved balance of every account
    events,      \* the events deposited so far, in order
    last         \* the latest call: the dispatchable and its DispatchResult,
                 \* or an internal function, its arguments and its value

vars == <<Matches, Bets, MatchCount, BetCount, free, reserved, events, last>>

Min(a, b) == IF a < b THEN a ELSE b

\* ------------------------------------------------ balance arithmetic ----
saturating_add(a, b) == Min(a + b, BalanceMax)
\* A multiplication that wraps around instead of saturating.
wrapping_mul(a, b) == (a * b) % (BalanceMax + 1)
saturating_mul(a, b) == Min(a * b, BalanceMax)

\* Percent::from_percent(x): a Percent holds at most 100 parts.
from_percent(x) == Min(x, 100)

\* Percent * amount: the product rounded to the nearest unit, a half down.
percent_mul(p, amount) ==
    LET whole == (amount \div 100) * p
        rem   == (amount % 100) * p
    IN  whole + (rem \div 100) + (IF rem % 100 > 50 THEN 1 ELSE 0)

\* A winnable amount that takes the two parts of the odd the wrong way round.
winnable_amount_parts_swapped(odd, amount) ==
    saturating_add(percent_mul(from_percent(odd[1]), amount),
                   saturating_mul(amount, odd[2]))

winnable_amount(odd, amount) ==
    saturating_add(percent_mul(from_percent(odd[2]), amount),
                   saturating_mul(amount, odd[1]))

\* ---------------------------------------------- reservable currency ----
\* A ledger is the pair of balance maps; every operation returns the new one.
Ledger(f, r) == [free |-> f, reserved |-> r]

can_reserve(l, who, value) == l.free[who] >= value

reserve(l, who, value) ==
    Ledger([l.free EXCEPT ![who] = @ - value],
           [l.reserved EXCEPT ![who] = @ + value])

unreserve(l, who, value) ==
    LET actual == Min(l.reserved[who], value)
    IN  Ledger([l.free EXCEPT ![who] = @ + actual],
               [l.reserved EXCEPT ![who] = @ - actual])

repatriate_reserved(l, slashed, beneficiary, value) ==
    LET actual == Min(l.reserved[slashed], value)
    IN  Ledger([l.free EXCEPT ![beneficiary] = @ + actual],
               [l.reserved EXCEPT ![slashed] = @ - actual])

\* ------------------------------------------------------- randomness ----
Seeds == 0..max_trials
DrawValues == { <<0, 1>>, <<0, 2>>, U32Max }
\* A randomness source gives one u32 per seed; here every seed after the
\* first two draws a value the rejection loop refuses.
RandomSources ==
    { [s \in Seeds |-> IF s = 0 THEN x ELSE IF s = 1 THEN y ELSE U32Max] :
        x \in DrawValues, y \in DrawValues }

\* Sources for generate_random_score on its own: the first k seeds draw a
\* refused value and the others an accepted one, or seed k alone draws an
\* accepted value.
RefusedDraws == { u32_sub(U32Max, 3), U32Max }
AcceptedDraws == { <<0, 0>>, <<0, 8>>, <<0, 9>>, u32_sub(U32Max, 4) }
ScoreSources ==
    RandomSources
    \cup { [s \in Seeds |-> IF s < k THEN b ELSE v] :
             k \in 0..(max_trials + 1), b \in RefusedDraws, v \in AcceptedDraws }
    \cup { [s \in Seeds |-> IF s = k THEN v ELSE b] :
             k \in Seeds, b \in RefusedDraws, v \in AcceptedDraws }

generate_random_number(rnd, seed) == rnd[seed]

\* A rejection loop that gives up one trial early.
RECURSIVE random_trials_one_short(_, _, _, _)
random_trials_one_short(rnd, seed_diff, i, random_number) ==
    IF i >= max_trials - 1 THEN random_number
    ELSE IF u32_lt(random_number, u32_sub(U32Max, u32_rem(U32Max, max_score)))
         THEN random_number
    ELSE random_trials_one_short(rnd, seed_diff, i + 1,
                                 generate_random_number(rnd, seed_diff + i))

RECURSIVE random_trials(_, _, _, _)
random_trials(rnd, seed_diff, i, random_number) ==
    IF i >= max_trials THEN random_number
    ELSE IF u32_lt(random_number, u32_sub(U32Max, u32_rem(U32Max, max_score)))
         THEN random_number
    ELSE random_trials(rnd, seed_diff, i + 1,
                       generate_random_number(rnd, seed_diff + i))

\* The seeds the same loop hands to generate_random_number, in order; the
\* last one drew the number the score is taken from.
RECURSIVE consulted_trials(_, _, _, _)
consulted_trials(rnd, seed_diff, i, seeds) ==
    IF i >= max_trials THEN seeds
    ELSE IF u32_lt(generate_random_number(rnd, seeds[Len(seeds)]),
                   u32_sub(U32Max, u32_rem(U32Max, max_score)))
         THEN seeds
    ELSE consulted_trials(rnd, seed_diff, i + 1, Append(seeds, seed_diff + i))

consulted_seeds(rnd, seed_diff) ==
    consulted_trials(rnd, seed_diff, 1, <<seed_diff>>)

generate_random_score(rnd, seed_diff) ==
    u32_rem(random_trials(rnd, seed_diff, 1,
                          generate_random_number(rnd, seed_diff)), max_score)

\* ------------------------------------------------------------ calls ----
Call(op, result) == [op |-> op, result |-> result]

Init ==
    /\ Matches = << >>
    /\ Bets = << >>
    /\ MatchCount = 0
    /\ BetCount = 0
    /\ free \in InitialFree
    /\ reserved = [a \in Accounts |-> 0]
    /\ events = << >>
    /\ last = Call("none", "Ok")

\* A call that returns Err before it has written anything.
Failed(call) ==
    /\ last' = call
    /\ UNCHANGED <<Matches, Bets, MatchCount, BetCount, free, reserved, events>>

\* The two ensure! of create_match.
create_match_error(odds) ==
    IF ~(\A k \in 1..5 : odds[k][2] < OddFracBound)
    THEN "OddFracPartOutOfBound"
    ELSE IF ~(\A k \in 1..5 : odds[k][1] > 0)
    THEN "OddIntPartOutOfBound"
    ELSE "Ok"

\* A create_match that stores the match and forgets to put the new count.
create_match_count_kept(owner, odds) ==
    LET call(result) == Call("create_match", result)
        error == create_match_error(odds)
    IN
    IF error # "Ok"
    THEN Failed(call(error))
    ELSE
      LET match_index == MatchCount
          single_match ==
              [owner |-> owner, status |-> "Open",
               home_score |-> 0, away_score |-> 0,
               odd_homewin |-> odds[1], odd_awaywin |-> odds[2],
               odd_draw |-> odds[3], odd_under |-> odds[4],
               odd_over |-> odds[5]]
      IN
      /\ MatchCount < MaxMatches
      /\ Matches' = (match_index :> single_match) @@ Matches
      /\ MatchCount' = match_index
      /\ events' = Append(events, <<"MatchCreated", match_index>>)
      /\ last' = call("Ok")
      /\ UNCHANGED <<Bets, BetCount, free, reserved>>

create_match(owner, odds) ==
    LET call(result) == Call("create_match", result)
        error == create_match_error(odds)
    IN
    IF error # "Ok"
    THEN Failed(call(error))
    ELSE
      LET match_index == MatchCount
          single_match ==
              [owner |-> owner, status |-> "Open",
               home_score |-> 0, away_score |-> 0,
               odd_homewin |-> odds[1], odd_awaywin |-> odds[2],
               odd_draw |-> odds[3], odd_under |-> odds[4],
               odd_over |-> odds[5]]
      IN
      /\ MatchCount < MaxMatches
      /\ Matches' = (match_index :> single_match) @@ Matches
      /\ MatchCount' = match_index + 1
      /\ events' = Append(events, <<"MatchCreated", match_index>>)
      /\ last' = call("Ok")
      /\ UNCHANGED <<Bets, BetCount, free, reserved>>

\* An odd lookup whose Over and Under arms are the wrong way round.
odd_of_over_under_swapped(selected_match, prediction) ==
    CASE prediction = "Homewin" -> selected_match.odd_homewin
      [] prediction = "Awaywin" -> selected_match.odd_awaywin
      [] prediction = "Draw"    -> selected_match.odd_draw
      [] prediction = "Over"    -> selected_match.odd_under
      [] prediction = "Under"   -> selected_match.odd_over

\* The odd of a match for a prediction.
odd_of(selected_match, prediction) ==
    CASE prediction = "Homewin" -> selected_match.odd_homewin
      [] prediction = "Awaywin" -> selected_match.odd_awaywin
      [] prediction = "Draw"    -> selected_match.odd_draw
      [] prediction = "Over"    -> selected_match.odd_over
      [] prediction = "Under"   -> selected_match.odd_under

\* A place_bet that looks at the status of the match before the caller.
place_bet_error_status_first(ledger, bet_owner, id_match, prediction, amount) ==
    IF id_match \notin DOMAIN Matches
    THEN "MatchNotExists"
    ELSE
      LET selected_match == Matches[id_match]
          match_owner == selected_match.owner
          odd == odd_of(selected_match, prediction)
      IN
      IF selected_match.status # "Open"
      THEN "MatchClosed"
      ELSE IF bet_owner = match_owner
      THEN "SameMatchOwner"
      ELSE IF ~can_reserve(ledger, match_owner, winnable_amount(odd, amount))
      THEN "MatchAccountInsufficientBalance"
      ELSE IF ~can_reserve(ledger, bet_owner, amount)
      THEN "BetAccountInsufficientBalance"
      ELSE "Ok"

\* The preconditions of place_bet in the order the code checks them.
place_bet_error(ledger, bet_owner, id_match, prediction, amount) ==
    IF id_match \notin DOMAIN Matches
    THEN "MatchNotExists"
    ELSE
      LET selected_match == Matches[id_match]
          match_owner == selected_match.owner
          odd == odd_of(selected_match, prediction)
      IN
      IF bet_owner = match_owner
      THEN "SameMatchOwner"
      ELSE IF selected_match.status # "Open"
      THEN "MatchClosed"
      ELSE IF ~can_reserve(ledger, bet_owner, amount)
      THEN "BetAccountInsufficientBalance"
      ELSE IF ~can_reserve(ledger, match_owner, winnable_amount(odd, amount))
      THEN "MatchAccountInsufficientBalance"
      ELSE "Ok"

\* A place_bet that backs a bet with the stake only, not with the exposure.
place_bet_reserve_stake_only(ledger, bet_owner, match_owner, amount, winnable) ==
    reserve(reserve(ledger, bet_owner, amount), match_owner, amount)

\* A place_bet that reserves the exposure from the bettor and the stake from
\* the bookmaker.
place_bet_reserve_swapped(ledger, bet_owner, match_owner, amount, winnable) ==
    reserve(reserve(ledger, match_owner, amount), bet_owner, winnable)

\* The two reservations of place_bet.
place_bet_reserve(ledger, bet_owner, match_owner, amount, winnable) ==
    reserve(reserve(ledger, bet_owner, amount), match_owner, winnable)

\* A place_bet that reserves the stake before it has checked the bookmaker.
place_bet_reserve_early(bet_owner, id_match, prediction, amount) ==
    LET call(result) == Call("place_bet", result)
        bet_index == BetCount
        ledger == Ledger(free, reserved)
        error == place_bet_error(ledger, bet_owner, id_match, prediction, amount)
    IN
    IF error \notin {"Ok", "MatchAccountInsufficientBalance"}
    THEN Failed(call(error))
    ELSE IF error = "MatchAccountInsufficientBalance"
    THEN /\ free' = reserve(ledger, bet_owner, amount).free
         /\ reserved' = reserve(ledger, bet_owner, amount).reserved
         /\ last' = call(error)
         /\ UNCHANGED <<Matches, Bets, MatchCount, BetCount, events>>
    ELSE
      LET selected_match == Matches[id_match]
          match_owner == selected_match.owner
          odd == odd_of(selected_match, prediction)
          after == place_bet_reserve(ledger, bet_owner, match_owner, amount,
                                     winnable_amount(odd, amount))
          bet == [owner |-> bet_owner, id_match |-> id_match,
                  prediction |-> prediction, odd |-> odd,
                  amount |-> amount, status |-> "Open"]
      IN
      /\ BetCount < MaxBets
      /\ free' = after.free
      /\ reserved' = after.reserved
      /\ Bets' = (bet_index :> bet) @@ Bets
      /\ BetCount' = bet_index + 1
      /\ events' = Append(events, <<"BetPlaced", bet_index>>)
      /\ last' = call("Ok")
      /\ UNCHANGED <<Matches, MatchCount>>

place_bet(bet_owner, id_match, prediction, amount) ==
    LET call(result) == Call("place_bet", result)
        bet_index == BetCount
        ledger == Ledger(free, reserved)
        error == place_bet_error(ledger, bet_owner, id_match, prediction, amount)
    IN
    IF error # "Ok"
    THEN Failed(call(error))
    ELSE
      LET selected_match == Matches[id_match]
          match_owner == selected_match.owner
          odd == odd_of(selected_match, prediction)
          after == place_bet_reserve(ledger, bet_owner, match_owner, amount,
                                     winnable_amount(odd, amount))
          bet == [owner |-> bet_owner, id_match |-> id_match,
                  prediction |-> prediction, odd |-> odd,
                  amount |-> amount, status |-> "Open"]
      IN
      /\ BetCount < MaxBets
      /\ free' = after.free
      /\ reserved' = after.reserved
      /\ Bets' = (bet_index :> bet) @@ Bets
      /\ BetCount' = bet_index + 1
      /\ events' = Append(events, <<"BetPlaced", bet_index>>)
      /\ last' = call("Ok")
      /\ UNCHANGED <<Matches, MatchCount>>

\* A set_match_result that does not look at the status of the match.
set_match_result_error_any_status(id_match) ==
    IF id_match \notin DOMAIN Matches THEN "MatchNotExists" ELSE "Ok"

\* The preconditions of set_match_result.
set_match_result_error(id_match) ==
    IF id_match \notin DOMAIN Matches
    THEN "MatchNotExists"
    ELSE IF Matches[id_match].status # "Open"
    THEN "MatchClosed"
    ELSE "Ok"

set_match_result(id_match, rnd) ==
    LET call(result) == Call("set_match_result", result)
        error == set_match_result_error(id_match)
    IN
    IF error # "Ok"
    THEN Failed(call(error))
    ELSE
      /\ Matches' = [Matches EXCEPT ![id_match] =
             [@ EXCEPT !.status = "Closed",
                       !.home_score = generate_random_score(rnd, 0),
                       !.away_score = generate_random_score(rnd, 1)]]
      /\ events' = Append(events, <<"MatchClosed", id_match>>)
      /\ last' = call("Ok")
      /\ UNCHANGED <<Bets, MatchCount, BetCount, free, reserved>>

\* A claim_bet that does not look at the status of the bet.
claim_bet_error_any_status(id_bet) ==
    IF id_bet \notin DOMAIN Bets
    THEN "BetNotExists"
    ELSE IF Bets[id_bet].id_match \notin DOMAIN Matches
    THEN "MatchNotExists"
    ELSE IF ~(Matches[Bets[id_bet].id_match].status \in {"Closed", "Postponed"})
    THEN "MatchOpen"
    ELSE "Ok"

\* A claim_bet that does not look at the status of the match.
claim_bet_error_any_match_status(id_bet) ==
    IF id_bet \notin DOMAIN Bets
    THEN "BetNotExists"
    ELSE IF Bets[id_bet].status # "Open"
    THEN "BetClosed"
    ELSE IF Bets[id_bet].id_match \notin DOMAIN Matches
    THEN "MatchNotExists"
    ELSE "Ok"

\* The preconditions of claim_bet.
claim_bet_error(id_bet) ==
    IF id_bet \notin DOMAIN Bets
    THEN "BetNotExists"
    ELSE IF Bets[id_bet].status # "Open"
    THEN "BetClosed"
    ELSE IF Bets[id_bet].id_match \notin DOMAIN Matches
    THEN "MatchNotExists"
    ELSE IF ~(Matches[Bets[id_bet].id_match].status \in {"Closed", "Postponed"})
    THEN "MatchOpen"
    ELSE "Ok"

\* An outcome rule whose Over and Under include the threshold itself.
bet_status_of_inclusive(prediction, selected_match) ==
    LET home == selected_match.home_score
        away == selected_match.away_score
    IN  CASE prediction = "Homewin" /\ home > away -> "Won"
          [] prediction = "Awaywin" /\ home < away -> "Won"
          [] prediction = "Draw" /\ home = away -> "Won"
          [] prediction = "Over" /\ home + away >= OverUnderThreshold -> "Won"
          [] prediction = "Under" /\ home + away <= OverUnderThreshold -> "Won"
          [] OTHER -> "Lost"

\* The outcome of a prediction for the scores of a match.
bet_status_of(prediction, selected_match) ==
    LET home == selected_match.home_score
        away == selected_match.away_score
    IN  CASE prediction = "Homewin" /\ home > away -> "Won"
          [] prediction = "Awaywin" /\ home < away -> "Won"
          [] prediction = "Draw" /\ home = away -> "Won"
          [] prediction = "Over" /\ home + away > OverUnderThreshold -> "Won"
          [] prediction = "Under" /\ home + away < OverUnderThreshold -> "Won"
          [] OTHER -> "Lost"

\* The first balance movement of the pay off.
pay_off_first(ledger, bet_status, bet_owner, match_owner, amount, winnable) ==
    IF bet_status = "Won"
    THEN repatriate_reserved(ledger, match_owner, bet_owner, winnable)
    ELSE repatriate_reserved(ledger, bet_owner, match_owner, amount)

\* A pay off that gives a winner's stake back to the winner.
pay_off_second_stake_back(ledger, bet_status, bet_owner, match_owner, a, w) ==
    IF bet_status = "Won"
    THEN unreserve(ledger, bet_owner, a)
    ELSE unreserve(ledger, match_owner, w)

\* A pay off that hands the exposure of a lost bet to the bettor.
pay_off_second_exposure_away(ledger, bet_status, bettor, match_owner, a, w) ==
    IF bet_status = "Won"
    THEN repatriate_reserved(ledger, bettor, match_owner, a)
    ELSE repatriate_reserved(ledger, match_owner, bettor, w)

\* A pay off that leaves the exposure of a lost bet reserved.
pay_off_second_exposure_kept(ledger, bet_status, bet_owner, match_owner, amount, winnable) ==
    IF bet_status = "Won"
    THEN repatriate_reserved(ledger, bet_owner, match_owner, amount)
    ELSE ledger

\* The second balance movement of the pay off, on the ledger the first left.
pay_off_second(ledger, bet_status, bet_owner, match_owner, amount, winnable) ==
    IF bet_status = "Won"
    THEN repatriate_reserved(ledger, bet_owner, match_owner, amount)
    ELSE unreserve(ledger, match_owner, winnable)

\* ledger_error names the repatriate_reserved call (1 or 2) of this claim
\* that the currency answers with Err; 0 when it answers every call with Ok.
claim_bet(id_bet, ledger_error) ==
    LET call(result) == Call("claim_bet", result)
        ledger == Ledger(free, reserved)
        error == claim_bet_error(id_bet)
    IN
    IF error # "Ok"
    THEN Failed(call(error))
    ELSE
      LET selected_bet == Bets[id_bet]
          selected_match == Matches[selected_bet.id_match]
          bet_status == bet_status_of(selected_bet.prediction, selected_match)
          winnable == winnable_amount(selected_bet.odd, selected_bet.amount)
          match_owner == selected_match.owner
          first == pay_off_first(ledger, bet_status, selected_bet.owner,
                                 match_owner, selected_bet.amount, winnable)
          second == pay_off_second(first, bet_status, selected_bet.owner,
                                   match_owner, selected_bet.amount, winnable)
      IN
      IF ledger_error = 1
      THEN Failed(call("LedgerError"))
      ELSE IF ledger_error = 2 /\ bet_status = "Won"
      THEN /\ free' = first.free
           /\ reserved' = first.reserved
           /\ last' = call("LedgerError")
           /\ UNCHANGED <<Matches, Bets, MatchCount, BetCount, events>>
      ELSE /\ free' = second.free
           /\ reserved' = second.reserved
           /\ Bets' = [Bets EXCEPT ![id_bet] = [@ EXCEPT !.status = bet_status]]
           /\ events' = Append(events, <<"BetClaimed", id_bet>>)
           /\ last' = call("Ok")
           /\ UNCHANGED <<Matches, MatchCount, BetCount>>

MatchIds == 0..MaxMatches
BetIds == 0..MaxBets

Next ==
    \/ \E owner \in Accounts, odds \in OddsInputs : create_match(owner, odds)
    \/ \E bet_owner \in Accounts, id_match \in MatchIds,
          prediction \in Predictions, amount \in Amounts :
            place_bet(bet_owner, id_match, prediction, amount)
    \/ \E id_match \in MatchIds, rnd \in RandomSources :
            set_match_result(id_match, rnd)
    \/ \E id_bet \in BetIds : claim_bet(id_bet, 0)

Spec == Init /\ [][Next]_vars

\* The same pallet over a currency that may answer repatriate_reserved with Err.
NextLedger ==
    \/ \E owner \in Accounts, odds \in OddsInputs : create_match(owner, odds)
    \/ \E bet_owner \in Accounts, id_match \in MatchIds,
          prediction \in Predictions, amount \in Amounts :
            place_bet(bet_owner, id_match, prediction, amount)
    \/ \E id_match \in MatchIds, rnd \in RandomSources :
            set_match_result(id_match, rnd)
    \/ \E id_bet \in BetIds, ledger_error \in 0..2 :
            claim_bet(id_bet, ledger_error)

SpecLedger == Init /\ [][NextLedger]_vars

\* ------------------------------------------- the functions on their own ----
\* A call of an internal function: its arguments, and its result once it
\* has returned.
Pending(op, args) == [op |-> op, args |-> args, returned |-> FALSE]
Returned(call, result) ==
    [op |-> call.op, args |-> call.args, returned |-> TRUE, result |-> result]

\* The pallet before any dispatchable, about to evaluate call.
InitPending(call) ==
    /\ Matches = << >>
    /\ Bets = << >>
    /\ MatchCount = 0
    /\ BetCount = 0
    /\ free \in InitialFree
    /\ reserved = [a \in Accounts |-> 0]
    /\ events = << >>
    /\ last = call

\* winnable_amount for every amount and every odd of an accepted match.
InitWinnable ==
    \E odd \in ValidOdds, amount \in Balances :
        InitPending(Pending("winnable_amount", <<odd, amount>>))

ApplyWinnable ==
    /\ last.op = "winnable_amount"
    /\ ~last.returned
    /\ last' = Returned(last, winnable_amount(last.args[1], last.args[2]))
    /\ UNCHANGED <<Matches, Bets, MatchCount, BetCount, free, reserved, events>>

SpecWinnable == InitWinnable /\ [][ApplyWinnable]_vars

\* generate_random_score for the two seed_diff of set_match_result and
\* every source.
InitScore ==
    \E rnd \in ScoreSources, seed_diff \in {0, 1} :
        InitPending(Pending("generate_random_score", <<rnd, seed_diff>>))

ApplyScore ==
    /\ last.op = "generate_random_score"
    /\ ~last.returned
    /\ last' = Returned(last,
                 [score |-> generate_random_score(last.args[1], last.args[2]),
                  seeds |-> consulted_seeds(last.args[1], last.args[2])])
    /\ UNCHANGED <<Matches, Bets, MatchCount, BetCount, free, reserved, events>>

SpecScore == InitScore /\ [][ApplyScore]_vars

\* ----------------------------------------------------------- claims ----
\* What account a has at stake in bet: its stake in a bet it placed, the
\* exposure of a bet placed against a match it owns.
StakeIn(a, bet) ==
    (IF bet.status = "Open" /\ bet.owner = a THEN bet.amount ELSE 0)
    + (IF bet.status = "Open" /\ Matches[bet.id_match].owner = a
       THEN winnable_amount(bet.odd, bet.amount) ELSE 0)

RECURSIVE Committed(_, _)
Committed(a, ids) ==
    IF ids = {} THEN 0
    ELSE LET i == CHOOSE i \in ids : TRUE
         IN  StakeIn(a, Bets[i]) + Committed(a, ids \ {i})

C2_PlaceBetReserves ==
    [][\A bet_owner \in Accounts, id_match \in MatchIds,
          prediction \in Predictions, amount \in Amounts :
         (last' = Call("place_bet", "Ok")
            /\ place_bet(bet_owner, id_match, prediction, amount))
         => LET match_owner == Matches[id_match].owner
                winnable == winnable_amount(
                                odd_of(Matches[id_match], prediction), amount)
            IN  /\ reserved' = [reserved EXCEPT ![bet_owner] = @ + amount,
                                                ![match_owner] = @ + winnable]
                /\ free' = [free EXCEPT ![bet_owner] = @ - amount,
                                        ![match_owner] = @ - winnable]]_vars

\* The latest call placed a bet whose exposure differs from its stake.
C2_BetPlaced ==
    /\ last = Call("place_bet", "Ok")
    /\ BetCount > 0
    /\ winnable_amount(Bets[BetCount - 1].odd, Bets[BetCount - 1].amount)
         > Bets[BetCount - 1].amount

\* C3: a call that returns an error because a precondition fails leaves the
\* match table, the bet table, both counters, every free and reserved balance
\* and the deposited events as they were.
C3_ErrorLeavesState ==
    [][last'.result # "Ok"
       => UNCHANGED <<Matches, Bets, MatchCount, BetCount, free, reserved,
                      events>>]_vars

\* place_bet has just failed on its last precondition, with bets in the table.
C3_LatePreconditionFailed ==
    /\ last = Call("place_bet", "MatchAccountInsufficientBalance")
    /\ BetCount > 0

C5_LostMovesFunds ==
    [][\A id_bet \in BetIds :
         (last' = Call("claim_bet", "Ok") /\ claim_bet(id_bet, 0)
            /\ Bets'[id_bet].status = "Lost")
         => LET bet == Bets[id_bet]
                match_owner == Matches[bet.id_match].owner
                winnable == winnable_amount(bet.odd, bet.amount)
            IN  /\ reserved' = [reserved EXCEPT ![bet.owner] = @ - bet.amount,
                                                ![match_owner] = @ - winnable]
                /\ free' = [free EXCEPT
                              ![match_owner] = @ + bet.amount + winnable]]_vars

\* The latest call settled a bet, and every settled bet is Lost.
C5_BetLost ==
    /\ last = Call("claim_bet", "Ok")
    /\ \E i \in DOMAIN Bets : Bets[i].status = "Lost"
    /\ \A i \in DOMAIN Bets : Bets[i].status \in {"Open", "Lost"}

\* Both balance movements of the settlement of bet id_bet have taken effect.
BothMovements(id_bet) ==
    LET bet == Bets[id_bet]
        match_owner == Matches[bet.id_match].owner
        winnable == winnable_amount(bet.odd, bet.amount)
    IN  IF Bets'[id_bet].status = "Won"
        THEN /\ reserved' = [reserved EXCEPT ![match_owner] = @ - winnable,
                                             ![bet.owner] = @ - bet.amount]
             /\ free' = [free EXCEPT ![bet.owner] = @ + winnable,
                                     ![match_owner] = @ + bet.amount]
        ELSE /\ reserved' = [reserved EXCEPT ![bet.owner] = @ - bet.amount,
                                             ![match_owner] = @ - winnable]
             /\ free' = [free EXCEPT
                           ![match_owner] = @ + bet.amount + winnable]

\* C6: whatever the currency answers, a claim_bet that has passed its
\* preconditions either applies both balance movements and makes the bet Won
\* or Lost, or fails with PayoffError and applies neither movement.
C6_PayoffIsOneUnit ==
    [][\A id_bet \in BetIds, ledger_error \in 0..2 :
         (last'.op = "claim_bet" /\ claim_bet_error(id_bet) = "Ok"
            /\ claim_bet(id_bet, ledger_error))
         => \/ /\ last'.result = "Ok"
               /\ Bets'[id_bet].status \in {"Won", "Lost"}
               /\ BothMovements(id_bet)
            \/ /\ last'.result = "PayoffError"
               /\ free' = free /\ reserved' = reserved]_vars

\* C7: a successful claim_bet makes the bet Won exactly when its prediction
\* holds of the scores (Homewin: home > away; Awaywin: home < away; Draw:
\* home = away; Over: home + away > 3; Under: home + away < 3) and Lost
\* otherwise; the bet does not stay Open.
C7_OutcomeTable ==
    [][\A id_bet \in BetIds :
         (last' = Call("claim_bet", "Ok") /\ claim_bet(id_bet, 0))
         => LET prediction == Bets[id_bet].prediction
                home == Matches[Bets[id_bet].id_match].home_score
                away == Matches[Bets[id_bet].id_match].away_score
                holds == \/ prediction = "Homewin" /\ home > away
                         \/ prediction = "Awaywin" /\ home < away
                         \/ prediction = "Draw" /\ home = away
                         \/ prediction = "Over" /\ home + away > 3
                         \/ prediction = "Under" /\ home + away < 3
            IN  Bets'[id_bet].status = IF holds THEN "Won" ELSE "Lost"]_vars

\* An Over bet and an Under bet were both settled as Lost on a match whose
\* scores add up to the threshold.
C7_BothLostAtThreshold ==
    \E i \in DOMAIN Bets, j \in DOMAIN Bets :
        /\ Bets[i].prediction = "Over" /\ Bets[i].status = "Lost"
        /\ Bets[j].prediction = "Under" /\ Bets[j].status = "Lost"
        /\ Matches[Bets[i].id_match].home_score
             + Matches[Bets[i].id_match].away_score = 3

\* C8: a bet that is Won or Lost never changes again, and a claim_bet on it
\* fails with BetClosed and moves no funds.
C8_SettledOnce ==
    [][\A id_bet \in DOMAIN Bets :
         Bets[id_bet].status \in {"Won", "Lost"}
         => /\ Bets'[id_bet] = Bets[id_bet]
            /\ (last'.op = "claim_bet" /\ claim_bet(id_bet, 0))
               => /\ last'.result = "BetClosed"
                  /\ free' = free /\ reserved' = reserved]_vars

\* A settled bet was claimed again while another bet still holds reserves.
C8_SecondClaimRefused ==
    /\ last = Call("claim_bet", "BetClosed")
    /\ \E i \in DOMAIN Bets : Bets[i].status \in {"Won", "Lost"}
    /\ \E i \in DOMAIN Bets : Bets[i].status = "Open"

\* C9: set_match_result on a match that is not Open fails with MatchClosed,
\* and the status and the scores of a Closed match never change again.
C9_ResultSetOnce ==
    [][\A id_match \in DOMAIN Matches :
         Matches[id_match].status # "Open"
         => /\ Matches'[id_match].status = Matches[id_match].status
            /\ Matches'[id_match].home_score = Matches[id_match].home_score
            /\ Matches'[id_match].away_score = Matches[id_match].away_score
            /\ last'.op = "set_match_result"
               => \A rnd \in RandomSources :
                    set_match_result(id_match, rnd)
                    => last'.result = "MatchClosed"]_vars

\* set_match_result was refused on a match that already has its result.
C9_SecondResultRefused ==
    /\ last = Call("set_match_result", "MatchClosed")
    /\ \E id_match \in DOMAIN Matches : Matches[id_match].status = "Closed"

\* C10: place_bet reports the first precondition that fails in the order:
\* match exists, caller is not the match owner, match is Open, the bettor
\* can reserve amount, the match owner can reserve winnable.
C10_FirstFailure ==
    \A bet_owner \in Accounts, id_match \in MatchIds,
       prediction \in Predictions, amount \in Amounts :
         place_bet_error(Ledger(free, reserved), bet_owner, id_match,
                         prediction, amount)
         = IF id_match \notin DOMAIN Matches
           THEN "MatchNotExists"
           ELSE IF bet_owner = Matches[id_match].owner
           THEN "SameMatchOwner"
           ELSE IF Matches[id_match].status # "Open"
           THEN "MatchClosed"
           ELSE IF free[bet_owner] < amount
           THEN "BetAccountInsufficientBalance"
           ELSE IF free[Matches[id_match].owner]
                     < winnable_amount(odd_of(Matches[id_match], prediction),
                                       amount)
           THEN "MatchAccountInsufficientBalance"
           ELSE "Ok"

\* The owner of a Closed match has tried to bet on it and was told
\* SameMatchOwner.
C10_OwnerOnClosedMatch ==
    /\ last = Call("place_bet", "SameMatchOwner")
    /\ MatchCount = MaxMatches
    /\ \A id_match \in DOMAIN Matches : Matches[id_match].status = "Closed"

\* C11: create_match succeeds exactly when each of the five odds has an
\* integer part above 0 and a fractional part below 100.
C11_AcceptsOddsInRange ==
    [][last'.op = "create_match"
         => \A owner \in Accounts, odds \in OddsInputs :
              create_match(owner, odds)
                => (last'.result = "Ok"
                      <=> \A k \in 1..5 : odds[k][1] > 0 /\ odds[k][2] < 100)]_vars

\* C12 (as the claim states it): winnable_amount(odd, amount) is
\* floor(amount * fraction / 100) + amount * integer part, saturating: the
\* fractional term is rounded down.
C12_WinnableRoundsDown ==
    (last.op = "winnable_amount" /\ last.returned)
        => LET odd == last.args[1]
               amount == last.args[2]
           IN  last.result
               = Min(BalanceMax, ((amount * odd[2]) \div 100)
                                 + Min(BalanceMax, amount * odd[1]))

\* C12 (amended): winnable_amount(odd, amount) is amount * fraction / 100
\* rounded to the nearest unit (a half goes down) plus amount * integer
\* part, saturating, for every amount and every accepted odd.
C12_WinnableRoundsToNearest ==
    (last.op = "winnable_amount" /\ last.returned)
        => LET odd == last.args[1]
               amount == last.args[2]
           IN  last.result
               = Min(BalanceMax, ((amount * odd[2] + 49) \div 100)
                                 + Min(BalanceMax, amount * odd[1]))

\* winnable_amount has returned a value below the cap whose fractional term
\* was rounded up, for an amount above 100.
C12_RoundedUp ==
    /\ last.op = "winnable_amount"
    /\ last.returned
    /\ last.result < BalanceMax
    /\ last.args[2] > 100
    /\ (last.args[2] * last.args[1][2]) % 100 > 50

\* C13: winnable_amount(odd, amount) >= amount for every amount and every
\* accepted odd, also when the multiplication or the addition saturates.
C13_WinnableCoversStake ==
    (last.op = "winnable_amount" /\ last.returned)
        => last.result >= last.args[2]

\* winnable_amount has returned the cap because the multiplication
\* saturated.
C13_Saturated ==
    /\ last.op = "winnable_amount"
    /\ last.returned
    /\ last.result = BalanceMax
    /\ last.args[2] * last.args[1][1] > BalanceMax
    /\ last.args[2] < BalanceMax

C15_BetMatchesItsMatch ==
    \A id_bet \in DOMAIN Bets :
        LET bet == Bets[id_bet]
        IN  /\ bet.id_match \in DOMAIN Matches
            /\ bet.owner # Matches[bet.id_match].owner
            /\ bet.odd =
                 IF bet.prediction = "Homewin"
                 THEN Matches[bet.id_match].odd_homewin
                 ELSE IF bet.prediction = "Awaywin"
                 THEN Matches[bet.id_match].odd_awaywin
                 ELSE IF bet.prediction = "Draw"
                 THEN Matches[bet.id_match].odd_draw
                 ELSE IF bet.prediction = "Under"
                 THEN Matches[bet.id_match].odd_under
                 ELSE Matches[bet.id_match].odd_over

\* An Under bet and an Over bet are stored for the same match.
C15_UnderAndOverStored ==
    \E i \in DOMAIN Bets, j \in DOMAIN Bets :
        /\ Bets[i].prediction = "Under"
        /\ Bets[j].prediction = "Over"
        /\ Bets[i].id_match = Bets[j].id_match

\* C16: claim_bet on an Open bet whose match is still Open fails with
\* MatchOpen and settles nothing; every Won or Lost bet references a match
\* that is Closed (or Postponed); a bet is only ever created against a match
\* that is Open.
C16_SettledAfterResult ==
    [][/\ \A id_bet \in DOMAIN Bets' :
            Bets'[id_bet].status \in {"Won", "Lost"}
              => Matches'[Bets'[id_bet].id_match].status
                   \in {"Closed", "Postponed"}
       /\ \A id_bet \in DOMAIN Bets' \ DOMAIN Bets :
            /\ Bets'[id_bet].id_match \in DOMAIN Matches
            /\ Matches[Bets'[id_bet].id_match].status = "Open"
       /\ last'.op = "claim_bet"
            => \A id_bet \in DOMAIN Bets :
                 (/\ Bets[id_bet].status = "Open"
                  /\ Matches[Bets[id_bet].id_match].status = "Open"
                  /\ claim_bet(id_bet, 0))
                   => /\ last'.result = "MatchOpen"
                      /\ UNCHANGED <<Bets, free, reserved>>]_vars

\* claim_bet has just been refused because the match has no result yet.
C16_ClaimRefusedOnOpenMatch ==
    /\ last = Call("claim_bet", "MatchOpen")
    /\ \E id_bet \in DOMAIN Bets :
         /\ Bets[id_bet].status = "Open"
         /\ Matches[Bets[id_bet].id_match].status = "Open"

\* C17: generate_random_score(seed_diff) returns a value in 0..8; it
\* consults the seeds seed_diff, seed_diff + 1, ... in that order, ten at
\* most, stops at the first draw below 4294967292 = MAX_U32 - MAX_U32 mod 9
\* and returns that draw modulo 9; when all ten draws are at or above it, it
\* returns the tenth modulo 9.
C17_ScoreFromFirstAcceptedDraw ==
    (last.op = "generate_random_score" /\ last.returned)
        => LET rnd == last.args[1]
               seed_diff == last.args[2]
               below(s) == \/ rnd[s][1] < Half - 1
                           \/ rnd[s][1] = Half - 1 /\ rnd[s][2] < Half - 4
               accepted == { j \in 0..9 : below(seed_diff + j) }
               stop == IF accepted = {} THEN 9
                       ELSE CHOOSE j \in accepted : \A k \in accepted : j <= k
               draw == rnd[seed_diff + stop]
           IN  /\ last.result.score \in 0..8
               /\ Len(last.result.seeds) <= 10
               /\ last.result.seeds = [n \in 1..(stop + 1) |-> seed_diff + n - 1]
               /\ last.result.score = (draw[1] * 7 + draw[2]) % 9

\* All ten draws were refused and the score was taken from the tenth.
C17_TenthDrawTaken ==
    /\ last.op = "generate_random_score"
    /\ last.returned
    /\ Len(last.result.seeds) = 10
    /\ \A n \in 1..10 : last.args[1][last.result.seeds[n]][1] = Half - 1
                        /\ last.args[1][last.result.seeds[n]][2] >= Half - 4

\* C18: Under and Over partition the results of a closed match: of a settled
\* Under bet and a settled Over bet on the same match, exactly one is Won.
C18_UnderOverPartition ==
    \A i \in DOMAIN Bets, j \in DOMAIN Bets :
        (/\ Bets[i].prediction = "Under"
         /\ Bets[j].prediction = "Over"
         /\ Bets[i].id_match = Bets[j].id_match
         /\ Bets[i].status # "Open"
         /\ Bets[j].status # "Open")
          => (Bets[i].status = "Won") # (Bets[j].status = "Won")

\* C19: in set_match_result the seed whose draw is accepted for the home
\* score is never the seed whose draw is accepted for the away score, and
\* the seeds consulted for the two scores do not overlap.
C19_ScoresFromDistinctSeeds ==
    [][(last'.op = "set_match_result" /\ last'.result = "Ok")
         => \A id_match \in MatchIds, rnd \in RandomSources :
              set_match_result(id_match, rnd)
                => LET home == consulted_seeds(rnd, 0)
                       away == consulted_seeds(rnd, 1)
                   IN  /\ home[Len(home)] # away[Len(away)]
                       /\ { home[n] : n \in 1..Len(home) }
                            \cap { away[n] : n \in 1..Len(away) } = {}]_vars

\* The sum of a balance map over a set of accounts.
RECURSIVE TotalOver(_, _)
TotalOver(balance, accounts) ==
    IF accounts = {} THEN 0
    ELSE LET a == CHOOSE x \in accounts : TRUE
         IN  balance[a] + TotalOver(balance, accounts \ {a})

\* C20: the sum over all accounts of free + reserved stays what it was at
\* the start, whatever calls succeed or fail, and once no bet is Open the
\* reserved balance of every account is back to its initial value, zero.
C20_FundsConserved ==
    /\ \E initial \in InitialFree :
         TotalOver(free, Accounts) + TotalOver(reserved, Accounts)
           = TotalOver(initial, Accounts)
    /\ (\A id_bet \in DOMAIN Bets : Bets[id_bet].status # "Open")
         => \A a \in Accounts : reserved[a] = 0

\* Two bets were placed and both are settled, one Won and one Lost.
C20_AllSettled ==
    /\ BetCount = 2
    /\ \E i \in DOMAIN Bets, j \in DOMAIN Bets :
         Bets[i].status = "Won" /\ Bets[j].status = "Lost"
    /\ \A id_bet \in DOMAIN Bets : Bets[id_bet].status # "Open"

\* An Open bet whose match is Closed.
Claimable(id_bet) ==
    /\ id_bet \in DOMAIN Bets
    /\ Bets[id_bet].status = "Open"
    /\ Matches[Bets[id_bet].id_match].status = "Closed"

\* C21: in every reachable state, claim_bet on an Open bet whose match is
\* Closed finds reserved everything it has to move: the stake on the bettor
\* and the winnable amount on the owner of the match.
C21_ClaimFindsItsFunds ==
    \A id_bet \in BetIds :
        Claimable(id_bet)
          => /\ reserved[Bets[id_bet].owner] >= Bets[id_bet].amount
             /\ reserved[Matches[Bets[id_bet].id_match].owner]
                  >= winnable_amount(Bets[id_bet].odd, Bets[id_bet].amount)
====
